---- MODULE Spec2Model ----
\* AttachmentRefInput.svelte: staging of uploaded files as attachments, the
\* reconciliation of the staged set against the live queries of persisted
\* attachments, and the commit / rollback of the staged set on submit, on
\* removal in draft mode, on removeDraft and on component teardown.
\*
\* One behaviour follows the instances of the component mounted one after the
\* other for one objectId.  The document store and the drafts store outlive an
\* instance; everything else is instance state.  A handler runs atomically up
\* to its next await; what it awaits (an upload, the operations of a commit)
\* resolves or rejects in a later step.
EXTENDS Integers, FiniteSets, TLC

\* ---------------------------------------------------------------- bounds
\* Files uploaded successfully over a whole behaviour (uuids handed out).
MaxUploads == 2
\* Files in one batch (one file input change, one drop, one paste).
MaxFiles == 2
\* Batches in flight at the same time.
MaxBatches == 2
\* Handler invocations of the user and the parent (file batches, removals,
\* submits, removeDraft, destroy) over a whole behaviour.
MaxOps == 3
\* The issue logs count up to MaxCount ("MaxCount or more").
MaxCount == 2

\* Ids of the attachment documents that may be persisted before the first mount.
PreexistingIds == {0}
\* Ids (and blob uuids) handed out to uploads.
FreshIds == 1..MaxUploads
Ids == PreexistingIds \cup FreshIds
Slots == 1..MaxBatches
\* No 'message' event yet.
NoMessage == 0 - 1

\* ---------------------------------------------------------------- data
\* The attachment document built by createAttachment: the blob's uuid names the
\* upload, and the generated _id is as fresh as the uuid is.
Doc(i) == [_id |-> i, file |-> i]

EmptyMap == [i \in {} |-> Doc(0)]
MapSet(m, d) == [i \in (DOMAIN m) \cup {d._id} |-> IF i = d._id THEN d ELSE m[i]]
MapDelete(m, i) == [j \in (DOMAIN m) \ {i} |-> m[j]]
MapValues(m) == {m[i] : i \in DOMAIN m}
toIdMap(res) == [i \in {d._id : d \in res} |-> CHOOSE d \in res : d._id = i]
Min(a, b) == IF a < b THEN a ELSE b

draftKey == "objectId_attachments"
NoDrafts == [k \in {} |-> EmptyMap]
DraftOf(m) == [k \in {draftKey} |-> m]

IdleBatch == [pc |-> "none", left |-> 0]

VARIABLES
  shouldSaveDraft,      \* prop
  draftsStore,          \* $draftsStore, restricted to draftKey
  store,                \* persisted attachment documents of objectId
  attachments,          \* IdMap<Attachment>
  newAttachments,       \* Set<Ref<Attachment>>
  removedAttachments,   \* Set<Attachment>
  originalAttachments,  \* Set<Ref<Attachment>>
  existingAttachments,  \* Ref<Attachment>[]
  saved, loading, progress,
  destroyed,
  subscribed,           \* query.query(...) of updateAttachments was issued
  queryDue,             \* its callback has a result to deliver
  existingKeys,         \* the _id filter of existingAttachmentsQuery
  existingDue,          \* its callback has a result to deliver
  batches,              \* fileSelected / fileDrop / loadFiles in flight
  nextId,               \* next uuid of uploadFile
  pending,              \* store and blob operations in flight
  msgPc,                \* onMessage: "idle" | "await"
  rmPc,                 \* removeAttachment (draft mode): "idle" | "await"
  addIssued, removeIssued, deleteIssued,   \* calls issued by this instance
  statusError,          \* setPlatformStatus(unknownError(..)) was called
  message,              \* attachments count of the last 'message' event
  calls                 \* handler invocations so far

vars == <<shouldSaveDraft, draftsStore, store, attachments, newAttachments,
          removedAttachments, originalAttachments, existingAttachments, saved,
          loading, progress, destroyed, subscribed, queryDue, existingKeys,
          existingDue, batches, nextId, pending, msgPc, rmPc, addIssued,
          removeIssued, deleteIssued, statusError, message, calls>>

\* ---------------------------------------------------------------- mount
\* updateAttachments: the draft branch is taken when a draft is stored and
\* shouldSaveDraft is set (an empty draft object is truthy).
RestoresDraft(ds, sd) == draftKey \in DOMAIN ds /\ sd

\* attachments.clear(), then attachments.set(id, file) for every draft entry.
RestoredAttachments(ds) == [i \in DOMAIN ds[draftKey] |-> ds[draftKey][i]]

\* Mutant of RestoredNew: the restored ids are not recorded as new.
RestoredNewEmpty(ds) == {}

\* newAttachments.clear(), then newAttachments.add(id) for every draft entry.
RestoredNew(ds) == DOMAIN ds[draftKey]

NoLog == [i \in Ids |-> 0]

\* The state of a new instance: the declarations of the script, then the first
\* run of its reactive statements (updateAttachments, existingAttachmentsQuery).
Instance(ds, sd) ==
  [attachments |-> IF RestoresDraft(ds, sd) THEN RestoredAttachments(ds) ELSE EmptyMap,
   newAttachments |-> IF RestoresDraft(ds, sd) THEN RestoredNew(ds) ELSE {},
   originalAttachments |-> {},
   removedAttachments |-> {},
   subscribed |-> ~RestoresDraft(ds, sd),
   queryDue |-> ~RestoresDraft(ds, sd),
   existingAttachments |-> {},
   existingKeys |-> IF RestoresDraft(ds, sd) THEN DOMAIN RestoredAttachments(ds) ELSE {},
   existingDue |-> TRUE,
   saved |-> FALSE,
   loading |-> FALSE,
   progress |-> FALSE,
   destroyed |-> FALSE,
   batches |-> [b \in Slots |-> IdleBatch],
   pending |-> {},
   msgPc |-> "idle",
   rmPc |-> "idle",
   addIssued |-> NoLog,
   removeIssued |-> NoLog,
   deleteIssued |-> NoLog,
   statusError |-> FALSE,
   message |-> NoMessage]

\* No instance is mounted yet.  The drafts store may hold a draft and the
\* document store documents that an earlier session left.
Init ==
  /\ shouldSaveDraft \in BOOLEAN
  /\ draftsStore \in {NoDrafts} \cup
       {DraftOf(toIdMap(S)) : S \in SUBSET {Doc(i) : i \in PreexistingIds}}
  /\ store \in SUBSET {Doc(i) : i \in PreexistingIds}
  /\ nextId = 1
  /\ calls = 0
  /\ LET m == [Instance(NoDrafts, FALSE) EXCEPT
                 !.destroyed = TRUE, !.subscribed = FALSE,
                 !.queryDue = FALSE, !.existingDue = FALSE] IN
       /\ attachments = m.attachments
       /\ newAttachments = m.newAttachments
       /\ originalAttachments = m.originalAttachments
       /\ removedAttachments = m.removedAttachments
       /\ subscribed = m.subscribed
       /\ queryDue = m.queryDue
       /\ existingAttachments = m.existingAttachments
       /\ existingKeys = m.existingKeys
       /\ existingDue = m.existingDue
       /\ saved = m.saved
       /\ loading = m.loading
       /\ progress = m.progress
       /\ destroyed = m.destroyed
       /\ batches = m.batches
       /\ pending = m.pending
       /\ msgPc = m.msgPc
       /\ rmPc = m.rmPc
       /\ addIssued = m.addIssued
       /\ removeIssued = m.removeIssued
       /\ deleteIssued = m.deleteIssued
       /\ statusError = m.statusError
       /\ message = m.message

\* ---------------------------------------------------------------- helpers
\* One more handler invocation, within the bound.
Op == calls < MaxOps /\ calls' = calls + 1

Bump(log, S) == [i \in Ids |-> IF i \in S THEN Min(log[i] + 1, MaxCount) ELSE log[i]]

OpsOf(ops, kind) == {o.id : o \in {x \in ops : x.op = kind}}

\* The calls in ops are issued; by names the handler that awaits them ("none"
\* for a call whose promise is dropped with void).
Issue(ops, by) ==
  /\ pending' = pending \cup {[op |-> o.op, id |-> o.id, by |-> by] : o \in ops}
  /\ addIssued' = Bump(addIssued, OpsOf(ops, "addCollection"))
  /\ removeIssued' = Bump(removeIssued, OpsOf(ops, "removeCollection"))
  /\ deleteIssued' = Bump(deleteIssued, OpsOf(ops, "deleteFile"))

\* The result of existingAttachmentsQuery over a document store.
ExistingResult(st, keys) == {d._id : d \in {x \in st : x._id \in keys}}

\* `attachments = ...` invalidates attachments: the reactive statement re-issues
\* existingAttachmentsQuery with the new keys (not in a destroyed component).
Requery(atts) ==
  IF destroyed
    THEN UNCHANGED <<existingKeys, existingDue>>
    ELSE /\ existingKeys' = DOMAIN atts
         /\ existingDue' = (existingDue \/ DOMAIN atts # existingKeys)

saveDraft(atts) ==
  draftsStore' = IF shouldSaveDraft THEN DraftOf(atts) ELSE draftsStore

saveAttachment(doc) ==
  IF doc._id \notin existingAttachments
    THEN {[op |-> "addCollection", id |-> doc._id]}
    ELSE {}

deleteAttachment(a) ==
  IF a._id \in originalAttachments
    THEN {[op |-> "removeCollection", id |-> a._id]}
    ELSE {[op |-> "deleteFile", id |-> a.file]}

\* Mutant of createAttachments: the removed attachments are not deleted.
createAttachmentsSkipRemoved(atts, removed) ==
  UNION {saveAttachment(atts[p]) : p \in newAttachments \cap DOMAIN atts}

\* The promises createAttachments pushes, over the attachments map and the
\* removed set as they are when it runs.
createAttachments(atts, removed) ==
  UNION {saveAttachment(atts[p]) : p \in newAttachments \cap DOMAIN atts}
    \cup UNION {deleteAttachment(a) : a \in removed}

Awaited(by) == {o \in pending : o.by = by}

\* ---------------------------------------------------------------- uploads
FreeSlots == {b \in Slots : batches[b].pc = "none"}
FirstFree == CHOOSE b \in FreeSlots : \A c \in FreeSlots : b <= c

StartBatch(pc, n) ==
  batches' = [batches EXCEPT ![FirstFree] = [pc |-> pc, left |-> n]]

UploadFrame ==
  UNCHANGED <<shouldSaveDraft, store, removedAttachments, originalAttachments,
              existingAttachments, saved, loading, destroyed, subscribed,
              queryDue, pending, msgPc, rmPc, addIssued, removeIssued,
              deleteIssued, message>>

\* fileSelected up to `await tick()`.
fileSelected(n) ==
  /\ ~destroyed /\ FreeSlots # {}
  /\ progress' = TRUE
  /\ StartBatch("tick", n)
  /\ UNCHANGED <<draftsStore, attachments, newAttachments, existingKeys,
                 existingDue, nextId, statusError>>
  /\ UploadFrame
  /\ Op

\* fileSelected after the tick: an empty list returns at once.
fileSelectedTick(b) ==
  /\ batches[b].pc = "tick"
  /\ batches' = [batches EXCEPT ![b] =
       IF batches[b].left = 0 THEN IdleBatch ELSE [@ EXCEPT !.pc = "upload"]]
  /\ UNCHANGED <<draftsStore, attachments, newAttachments, existingKeys,
                 existingDue, nextId, statusError, progress>>
  /\ UploadFrame
  /\ UNCHANGED calls

fileDrop(n) ==
  /\ ~destroyed /\ (n > 0 => FreeSlots # {})
  /\ progress' = TRUE
  /\ IF n = 0 THEN UNCHANGED batches ELSE StartBatch("upload", n)
  /\ UNCHANGED <<draftsStore, attachments, newAttachments, existingKeys,
                 existingDue, nextId, statusError>>
  /\ UploadFrame
  /\ Op

loadFiles(n) ==
  /\ ~destroyed /\ (n > 0 => FreeSlots # {})
  /\ IF n = 0
       THEN progress' = FALSE /\ UNCHANGED batches
       ELSE progress' = TRUE /\ StartBatch("upload", n)
  /\ UNCHANGED <<draftsStore, attachments, newAttachments, existingKeys,
                 existingDue, nextId, statusError>>
  /\ UploadFrame
  /\ Op

\* The batch loop after createAttachment has returned for one file.
NextFile(b) ==
  LET l == batches[b].left - 1 IN
  /\ batches' = [batches EXCEPT ![b] =
       IF l = 0 THEN IdleBatch ELSE [pc |-> "upload", left |-> l]]
  /\ progress' = IF l = 0 THEN FALSE ELSE progress

\* Mutant of createAttachmentCatch: the error leaves createAttachment and ends
\* the batch, unreported.
createAttachmentRethrow(b) ==
  /\ batches' = [batches EXCEPT ![b] = IdleBatch]
  /\ UNCHANGED <<statusError, progress, draftsStore, attachments, newAttachments,
                 existingKeys, existingDue>>

\* catch (err) { setPlatformStatus(unknownError(err)) }: createAttachment
\* returns normally and the batch goes on.
createAttachmentCatch(b) ==
  /\ statusError' = TRUE
  /\ NextFile(b)
  /\ UNCHANGED <<draftsStore, attachments, newAttachments, existingKeys, existingDue>>

\* A batch at pc "upload" is inside createAttachment, at `await uploadFile(file)`
\* or at `await getFileMetadata(file, uuid)`: the component's state is the same
\* at both, so the two awaits are one position with three outcomes.
uploadFileFails(b) ==
  /\ batches[b].pc = "upload"
  /\ createAttachmentCatch(b)
  /\ UNCHANGED nextId
  /\ UploadFrame
  /\ UNCHANGED calls

\* The blob is uploaded (its uuid is used up), then getFileMetadata throws.
getFileMetadataFails(b) ==
  /\ batches[b].pc = "upload"
  /\ nextId <= MaxUploads
  /\ createAttachmentCatch(b)
  /\ nextId' = nextId + 1
  /\ UploadFrame
  /\ UNCHANGED calls

\* createAttachment after both awaits: stage the attachment and save the draft.
createAttachment(b) ==
  /\ batches[b].pc = "upload"
  /\ nextId <= MaxUploads
  /\ LET atts == MapSet(attachments, Doc(nextId)) IN
       /\ attachments' = atts
       /\ newAttachments' = newAttachments \cup {nextId}
       /\ Requery(atts)
       /\ saveDraft(atts)
  /\ NextFile(b)
  /\ nextId' = nextId + 1
  /\ UNCHANGED statusError
  /\ UploadFrame
  /\ UNCHANGED calls

\* ---------------------------------------------------------------- removal
\* Mutant of removeAttachmentPlain: the removed attachment is deleted at once.
removeAttachmentEager(a) ==
  /\ ~destroyed /\ ~shouldSaveDraft
  /\ a \in MapValues(attachments)
  /\ removedAttachments' = removedAttachments \cup {a}
  /\ attachments' = MapDelete(attachments, a._id)
  /\ Requery(attachments')
  /\ saveDraft(attachments')
  /\ Issue(deleteAttachment(a), "none")
  /\ UNCHANGED <<shouldSaveDraft, store, newAttachments, originalAttachments,
                 existingAttachments, saved, loading, progress, destroyed,
                 subscribed, queryDue, batches, nextId, msgPc, rmPc,
                 statusError, message>>
  /\ Op

\* removeAttachment with shouldSaveDraft = false: no await, it runs to its end.
removeAttachmentPlain(a) ==
  /\ ~destroyed /\ ~shouldSaveDraft
  /\ a \in MapValues(attachments)
  /\ removedAttachments' = removedAttachments \cup {a}
  /\ attachments' = MapDelete(attachments, a._id)
  /\ Requery(attachments')
  /\ saveDraft(attachments')
  /\ UNCHANGED <<shouldSaveDraft, store, newAttachments, originalAttachments,
                 existingAttachments, saved, loading, progress, destroyed,
                 subscribed, queryDue, batches, nextId, pending, msgPc, rmPc,
                 addIssued, removeIssued, deleteIssued, statusError, message>>
  /\ Op

\* removeAttachment with shouldSaveDraft = true, up to `await createAttachments()`.
\* One such removal awaits its commit at a time.
removeAttachmentDraft(a) ==
  /\ ~destroyed /\ shouldSaveDraft /\ rmPc = "idle"
  /\ a \in MapValues(attachments)
  /\ removedAttachments' = removedAttachments \cup {a}
  /\ attachments' = MapDelete(attachments, a._id)
  /\ saved' = TRUE
  /\ Issue(createAttachments(attachments', removedAttachments'), "rm")
  /\ rmPc' = "await"
  /\ UNCHANGED <<shouldSaveDraft, draftsStore, store, newAttachments,
                 originalAttachments, existingAttachments, loading, progress,
                 destroyed, subscribed, queryDue, existingKeys, existingDue,
                 batches, nextId, msgPc, statusError, message>>
  /\ Op

\* removeAttachment after the await: `attachments = attachments; saveDraft()`.
removeAttachmentEnd ==
  /\ rmPc = "await" /\ Awaited("rm") = {}
  /\ rmPc' = "idle"
  /\ Requery(attachments)
  /\ saveDraft(attachments)
  /\ UNCHANGED <<shouldSaveDraft, store, attachments, newAttachments,
                 removedAttachments, originalAttachments, existingAttachments,
                 saved, loading, progress, destroyed, subscribed, queryDue,
                 batches, nextId, pending, msgPc, addIssued, removeIssued,
                 deleteIssued, statusError, message>>
  /\ UNCHANGED calls

\* ---------------------------------------------------------------- submit
\* onMessage up to `await createAttachments()`.  One submit runs at a time.
onMessage ==
  /\ ~destroyed /\ msgPc = "idle"
  /\ loading' = TRUE
  /\ saved' = TRUE
  /\ Issue(createAttachments(attachments, removedAttachments), "msg")
  /\ msgPc' = "await"
  /\ UNCHANGED <<shouldSaveDraft, draftsStore, store, attachments, newAttachments,
                 removedAttachments, originalAttachments, existingAttachments,
                 progress, destroyed, subscribed, queryDue, existingKeys,
                 existingDue, batches, nextId, rmPc, statusError, message>>
  /\ Op

\* onMessage after the await: `loading = false; dispatch('message', ...)`.
onMessageEnd ==
  /\ msgPc = "await" /\ Awaited("msg") = {}
  /\ msgPc' = "idle"
  /\ loading' = FALSE
  /\ message' = Cardinality(DOMAIN attachments)
  /\ UNCHANGED <<shouldSaveDraft, draftsStore, store, attachments, newAttachments,
                 removedAttachments, originalAttachments, existingAttachments,
                 saved, progress, destroyed, subscribed, queryDue, existingKeys,
                 existingDue, batches, nextId, pending, rmPc, addIssued,
                 removeIssued, deleteIssued, statusError>>
  /\ UNCHANGED calls

\* ---------------------------------------------------------------- teardown
\* What onDestroy issues (every promise dropped with void).
onDestroyOps ==
  IF saved THEN {}
  ELSE IF shouldSaveDraft
    THEN createAttachments(attachments, removedAttachments)
    ELSE UNION {deleteAttachment(attachments[p]) : p \in newAttachments \cap DOMAIN attachments}

\* onDestroy; the two live queries are unsubscribed with the component.
onDestroy ==
  /\ ~destroyed
  /\ destroyed' = TRUE
  /\ Issue(onDestroyOps, "none")
  /\ saved' = (saved \/ shouldSaveDraft)
  /\ queryDue' = FALSE
  /\ existingDue' = FALSE
  /\ UNCHANGED <<shouldSaveDraft, draftsStore, store, attachments, newAttachments,
                 removedAttachments, originalAttachments, existingAttachments,
                 loading, progress, subscribed, existingKeys, batches, nextId,
                 msgPc, rmPc, statusError, message>>
  /\ Op

\* Mutant of removeDraftOps: the file of every attachment shown is deleted.
removeDraftOpsAll(removeFiles) ==
  IF removeFiles
    THEN {[op |-> "deleteFile", id |-> attachments[p].file] : p \in DOMAIN attachments}
    ELSE {}

removeDraftOps(removeFiles) ==
  IF removeFiles
    THEN {[op |-> "deleteFile", id |-> attachments[p].file] :
            p \in newAttachments \cap DOMAIN attachments}
    ELSE {}

removeDraft(removeFiles) ==
  /\ ~destroyed
  /\ draftsStore' = NoDrafts
  /\ Issue(removeDraftOps(removeFiles), "none")
  /\ UNCHANGED <<shouldSaveDraft, store, attachments, newAttachments,
                 removedAttachments, originalAttachments, existingAttachments,
                 saved, loading, progress, destroyed, subscribed, queryDue,
                 existingKeys, existingDue, batches, nextId, msgPc, rmPc,
                 statusError, message>>
  /\ Op

\* ---------------------------------------------------------------- queries
\* The callback of the query of updateAttachments.
queryCallback ==
  /\ ~destroyed /\ subscribed /\ queryDue
  /\ queryDue' = FALSE
  /\ originalAttachments' = {d._id : d \in store}
  /\ attachments' = toIdMap(store)
  /\ Requery(attachments')
  /\ UNCHANGED <<shouldSaveDraft, draftsStore, store, newAttachments,
                 removedAttachments, existingAttachments, saved, loading,
                 progress, destroyed, subscribed, batches, nextId, pending,
                 msgPc, rmPc, addIssued, removeIssued, deleteIssued,
                 statusError, message>>
  /\ UNCHANGED calls

\* The callback of existingAttachmentsQuery.
existingCallback ==
  /\ ~destroyed /\ existingDue
  /\ existingDue' = FALSE
  /\ existingAttachments' = ExistingResult(store, existingKeys)
  /\ UNCHANGED <<shouldSaveDraft, draftsStore, store, attachments, newAttachments,
                 removedAttachments, originalAttachments, saved, loading,
                 progress, destroyed, subscribed, queryDue, existingKeys,
                 batches, nextId, pending, msgPc, rmPc, addIssued, removeIssued,
                 deleteIssued, statusError, message>>
  /\ UNCHANGED calls

\* ---------------------------------------------------------------- store
\* The document store after an operation has been applied.
Applied(st, o) ==
  CASE o.op = "addCollection" ->
         IF \E d \in st : d._id = o.id THEN st ELSE st \cup {Doc(o.id)}
    [] o.op = "removeCollection" -> {d \in st : d._id # o.id}
    [] OTHER -> st

\* A live query is notified when its result changes.
Notify(st) ==
  /\ queryDue' = (queryDue \/ (subscribed /\ ~destroyed /\ st # store))
  /\ existingDue' = (existingDue \/
       (~destroyed /\ ExistingResult(st, existingKeys) # ExistingResult(store, existingKeys)))

\* An operation in flight resolves.
resolve(o) ==
  /\ o \in pending
  /\ pending' = pending \ {o}
  /\ store' = Applied(store, o)
  /\ Notify(store')
  /\ UNCHANGED <<shouldSaveDraft, draftsStore, attachments, newAttachments,
                 removedAttachments, originalAttachments, existingAttachments,
                 saved, loading, progress, destroyed, subscribed, existingKeys,
                 batches, nextId, msgPc, rmPc, addIssued, removeIssued,
                 deleteIssued, statusError, message>>
  /\ UNCHANGED calls

\* An operation in flight rejects: Promise.all rejects, the handler awaiting it
\* throws at its await and runs no further; the commit's other operations stay
\* in flight with nobody awaiting them.
reject(o) ==
  /\ o \in pending
  /\ pending' = {IF x.by = o.by THEN [x EXCEPT !.by = "none"] ELSE x : x \in pending \ {o}}
  /\ msgPc' = IF o.by = "msg" THEN "idle" ELSE msgPc
  /\ rmPc' = IF o.by = "rm" THEN "idle" ELSE rmPc
  /\ UNCHANGED <<shouldSaveDraft, draftsStore, store, attachments, newAttachments,
                 removedAttachments, originalAttachments, existingAttachments,
                 saved, loading, progress, destroyed, subscribed, queryDue,
                 existingKeys, existingDue, batches, nextId, addIssued,
                 removeIssued, deleteIssued, statusError, message>>
  /\ UNCHANGED calls

\* ---------------------------------------------------------------- instances
Quiescent ==
  /\ pending = {}
  /\ \A b \in Slots : batches[b].pc = "none"
  /\ msgPc = "idle" /\ rmPc = "idle"

\* An instance is mounted for objectId, once the destroyed one is at rest.
mount ==
  /\ destroyed /\ Quiescent
  /\ LET m == Instance(draftsStore, shouldSaveDraft) IN
       /\ attachments' = m.attachments
       /\ newAttachments' = m.newAttachments
       /\ originalAttachments' = m.originalAttachments
       /\ removedAttachments' = m.removedAttachments
       /\ subscribed' = m.subscribed
       /\ queryDue' = m.queryDue
       /\ existingAttachments' = m.existingAttachments
       /\ existingKeys' = m.existingKeys
       /\ existingDue' = m.existingDue
       /\ saved' = m.saved
       /\ loading' = m.loading
       /\ progress' = m.progress
       /\ destroyed' = m.destroyed
       /\ batches' = m.batches
       /\ pending' = m.pending
       /\ msgPc' = m.msgPc
       /\ rmPc' = m.rmPc
       /\ addIssued' = m.addIssued
       /\ removeIssued' = m.removeIssued
       /\ deleteIssued' = m.deleteIssued
       /\ statusError' = m.statusError
       /\ message' = m.message
  /\ UNCHANGED <<shouldSaveDraft, draftsStore, store, nextId, calls>>

Next ==
  \/ \E n \in 0..MaxFiles : fileSelected(n)
  \/ \E b \in Slots : fileSelectedTick(b)
  \/ \E n \in 0..MaxFiles : fileDrop(n)
  \/ \E n \in 0..MaxFiles : loadFiles(n)
  \/ \E b \in Slots : uploadFileFails(b)
  \/ \E b \in Slots : getFileMetadataFails(b)
  \/ \E b \in Slots : createAttachment(b)
  \/ \E a \in {Doc(i) : i \in Ids} : removeAttachmentPlain(a)
  \/ \E a \in {Doc(i) : i \in Ids} : removeAttachmentDraft(a)
  \/ removeAttachmentEnd
  \/ onMessage
  \/ onMessageEnd
  \/ onDestroy
  \/ \E removeFiles \in BOOLEAN : removeDraft(removeFiles)
  \/ queryCallback
  \/ existingCallback
  \/ \E o \in pending : resolve(o)
  \/ \E o \in pending : reject(o)
  \/ mount

Spec == Init /\ [][Next]_vars

\* ---------------------------------------------------------------- steps
\* The steps the properties below speak of, told by what they change.
DestroyStep == ~destroyed /\ destroyed'
MountStep == destroyed /\ ~destroyed'
SubmitStep == msgPc = "idle" /\ msgPc' = "await"
\* onMessage gets past its await (a rejection leaves it too, and takes the
\* rejected operation out of pending).
DispatchStep == msgPc = "await" /\ msgPc' = "idle" /\ pending' = pending
RemovalStep == ~MountStep /\ removedAttachments' # removedAttachments
StagingStep == nextId' # nextId /\ newAttachments' # newAttachments
RemoveAttachmentLeft == rmPc = "await" /\ rmPc' = "idle"

Op3(kind, i, by) == [op |-> kind, id |-> i, by |-> by]

\* ---------------------------------------------------------------- C1
\* C1 (as claimed): when the component is destroyed with shouldSaveDraft = false,
\* every file staged by it (its id is in newAttachments) for which no
\* addCollection was ever issued has had deleteFile issued.
C1_RollbackOnTeardown ==
  [][(DestroyStep /\ ~shouldSaveDraft) =>
       \A i \in newAttachments : addIssued'[i] = 0 => deleteIssued'[i] > 0]_vars

\* ---------------------------------------------------------------- C2
\* C2: the step in which onMessage runs createAttachments issues addCollection
\* for every id of newAttachments that is in attachments and is not in
\* existingAttachments, and removeCollection or deleteFile (deleteAttachment)
\* for every attachment of removedAttachments; no step at all issues
\* addCollection for an id that is not a staged id present in attachments; and
\* a staged id that was removed before any addCollection for it stays out of
\* attachments and is never added by this instance.
C2_CommitOnSubmit ==
  [][/\ SubmitStep =>
          /\ \A p \in newAttachments \cap DOMAIN attachments :
               p \notin existingAttachments =>
                 /\ Op3("addCollection", p, "msg") \in pending'
                 /\ addIssued'[p] = Min(addIssued[p] + 1, MaxCount)
          /\ \A a \in removedAttachments :
               IF a._id \in originalAttachments
                 THEN /\ Op3("removeCollection", a._id, "msg") \in pending'
                      /\ removeIssued'[a._id] = Min(removeIssued[a._id] + 1, MaxCount)
                 ELSE /\ Op3("deleteFile", a.file, "msg") \in pending'
                      /\ deleteIssued'[a.file] = Min(deleteIssued[a.file] + 1, MaxCount)
     /\ \A p \in Ids :
          addIssued'[p] > addIssued[p] => p \in newAttachments' \cap DOMAIN attachments'
     /\ \A p \in newAttachments :
          (Doc(p) \in removedAttachments /\ p \notin DOMAIN attachments
             /\ addIssued[p] = 0 /\ ~MountStep) =>
            (p \notin DOMAIN attachments' /\ addIssued'[p] = 0)
    ]_vars

\* A submit has issued an addCollection and a removeCollection, both in flight.
C2_Witness ==
  /\ msgPc = "await"
  /\ \E p \in Ids : Op3("addCollection", p, "msg") \in pending
  /\ \E p \in Ids : Op3("removeCollection", p, "msg") \in pending

\* ---------------------------------------------------------------- C3
\* C3 (as claimed): no commit issues addCollection for an attachment whose
\* document is persisted already (so that no document is added twice).
C3_PersistedNeverAddedAgain ==
  [][\A i \in Ids : addIssued'[i] > addIssued[i] => Doc(i) \notin store]_vars

\* ---------------------------------------------------------------- C4
\* C4: a failure of uploadFile or getFileMetadata inside createAttachment is
\* reported to setPlatformStatus, leaves attachments, newAttachments and the
\* saved draft as they were, and the batch goes on with its next file (or ends
\* as a batch without failure ends).
C4_UploadErrorsCaught ==
  [][\A b \in Slots : (uploadFileFails(b) \/ getFileMetadataFails(b)) =>
       /\ statusError'
       /\ attachments' = attachments
       /\ newAttachments' = newAttachments
       /\ draftsStore' = draftsStore
       /\ IF batches[b].left > 1
            THEN batches'[b] = [pc |-> "upload", left |-> batches[b].left - 1]
            ELSE batches'[b] = IdleBatch /\ ~progress'
    ]_vars

\* The only batch started so far had two files: the first failed and the second
\* is being uploaded.
C4_Witness ==
  /\ calls = 1 /\ statusError /\ nextId = 1
  /\ \E b \in Slots : batches[b] = [pc |-> "upload", left |-> 1]

\* ---------------------------------------------------------------- C5
\* C5: removeDraft(removeFiles) removes the stored draft; with removeFiles it
\* issues deleteFile for the files of exactly the ids of newAttachments that are
\* in attachments, without it none; attachments, newAttachments,
\* removedAttachments and originalAttachments are unchanged.
C5_RemoveDraft ==
  [][\A removeFiles \in BOOLEAN : removeDraft(removeFiles) =>
       /\ draftKey \notin DOMAIN draftsStore'
       /\ deleteIssued' = Bump(deleteIssued,
            IF removeFiles
              THEN {attachments[p].file : p \in newAttachments \cap DOMAIN attachments}
              ELSE {})
       /\ {o \in pending' \ pending : o.op = "deleteFile"} \subseteq
            {Op3("deleteFile", attachments[p].file, "none") :
               p \in newAttachments \cap DOMAIN attachments}
       /\ (~removeFiles => pending' = pending)
       /\ UNCHANGED <<attachments, newAttachments, removedAttachments,
                      originalAttachments, addIssued, removeIssued>>
    ]_vars

\* removeDraft(true) has issued a deleteFile: nothing else issues one in an
\* instance that is neither saved nor destroyed.
C5_Witness ==
  /\ ~destroyed /\ ~saved
  /\ draftKey \notin DOMAIN draftsStore
  /\ \E i \in Ids : deleteIssued[i] > 0 /\ i \in newAttachments

\* ---------------------------------------------------------------- C6
\* C6 (as claimed): with shouldSaveDraft, when createAttachment has staged a file
\* and when removeAttachment is left (its commit failed or not), the stored draft
\* is the attachments map; without shouldSaveDraft the draft is never written.
C6_DraftTracksStaged ==
  [][/\ (shouldSaveDraft /\ (StagingStep \/ RemoveAttachmentLeft)) =>
          draftsStore' = DraftOf(attachments')
     /\ ~shouldSaveDraft => (draftsStore' = draftsStore \/ draftsStore' = NoDrafts)
    ]_vars

\* ---------------------------------------------------------------- C7
\* C7: an instance mounted with shouldSaveDraft over a stored draft has the
\* draft's entries as attachments and the draft's keys as newAttachments,
\* originalAttachments and removedAttachments empty, and no subscription of the
\* persisted-attachments query (whose callback then never runs); the draft
\* itself is as the instance before left it.
C7_DraftRestore ==
  [][/\ (MountStep /\ shouldSaveDraft /\ draftKey \in DOMAIN draftsStore) =>
          /\ attachments' = draftsStore[draftKey]
          /\ newAttachments' = DOMAIN draftsStore[draftKey]
          /\ originalAttachments' = {}
          /\ removedAttachments' = {}
          /\ ~subscribed' /\ ~queryDue'
          /\ draftsStore' = draftsStore
     /\ (~subscribed /\ ~MountStep) =>
          (~subscribed' /\ originalAttachments' = originalAttachments)
    ]_vars

\* An instance restored the draft that the instance before it saved: attachment
\* 1 was uploaded in this behaviour, its document is persisted, and this
\* instance has issued nothing.
C7_Witness ==
  /\ ~destroyed /\ shouldSaveDraft /\ ~subscribed
  /\ 1 \in DOMAIN attachments /\ 1 \in newAttachments
  /\ Doc(1) \in store /\ addIssued = NoLog

\* ---------------------------------------------------------------- C8
\* C8 (as claimed): 'message' is dispatched only when no operation of the commit
\* is in flight, loading is true while onMessage awaits the commit and false
\* whenever onMessage is not running.
C8_SubmitOrdering ==
  [][/\ DispatchStep => Awaited("msg") = {}
     /\ msgPc' = "await" => loading'
     /\ msgPc' = "idle" => ~loading'
    ]_vars

\* ---------------------------------------------------------------- C9
\* C9: without shouldSaveDraft, the step that removes an attachment issues
\* nothing and only moves the attachment from attachments to removedAttachments;
\* and as long as nothing was submitted, the instance has issued no
\* removeCollection and no addCollection, and no deleteFile for the file of a
\* persisted document.
C9_RemovalDeferred ==
  [][/\ (~shouldSaveDraft /\ RemovalStep) =>
          /\ UNCHANGED <<pending, addIssued, removeIssued, deleteIssued, store,
                         newAttachments, originalAttachments, saved>>
          /\ \E a \in MapValues(attachments) :
               /\ attachments' = MapDelete(attachments, a._id)
               /\ removedAttachments' = removedAttachments \cup {a}
     /\ (~shouldSaveDraft' /\ ~saved') =>
          /\ removeIssued' = NoLog
          /\ addIssued' = NoLog
          /\ \A d \in store' : deleteIssued'[d.file] = 0
    ]_vars

\* A persisted attachment was removed and the component destroyed, unsubmitted.
C9_Witness ==
  /\ ~shouldSaveDraft /\ destroyed /\ ~saved
  /\ Doc(0) \in removedAttachments /\ Doc(0) \in store
  /\ pending = {}

\* ---------------------------------------------------------------- C10
\* C10 (as claimed): deleteFile has not been issued for the file of an attachment
\* whose document this instance added or found persisted, unless removeCollection
\* was issued for the document.
C10_NoDanglingDocument ==
  \A i \in Ids :
    (deleteIssued[Doc(i).file] > 0 /\
       (addIssued[i] > 0 \/ i \in originalAttachments \/ i \in existingAttachments))
      => removeIssued[i] > 0

\* ---------------------------------------------------------------- C11
\* C11 (as claimed): in an instance that subscribed the persisted-attachments
\* query (shouldSaveDraft = false, or no stored draft), an attachment staged by
\* createAttachment and still in attachments stays in attachments over every
\* step but the one in which the user removes it and the one that destroys the
\* component.
C11_StagedSurviveRefresh ==
  [][(~destroyed /\ subscribed /\ ~DestroyStep) =>
       \A i \in newAttachments \cap DOMAIN attachments :
         i \in DOMAIN attachments' \/ Doc(i) \in removedAttachments' \ removedAttachments]_vars

\* ---------------------------------------------------------------- C12
\* C12 (as claimed): over all the commits of an instance (submits, removals in
\* draft mode, teardown), removeCollection and deleteFile together are issued
\* at most once for any attachment.
C12_DeletedAtMostOnce ==
  \A i \in Ids : removeIssued[i] + deleteIssued[Doc(i).file] <= 1

\* ---------------------------------------------------------------- C13
\* C13 (as claimed): progress is true while some file batch (fileSelected,
\* fileDrop, loadFiles) has an upload in flight, and false when no started batch
\* is left unfinished.
C13_ProgressIndicator ==
  /\ (\E b \in Slots : batches[b].pc = "upload") => progress
  /\ (\A b \in Slots : batches[b].pc = "none") => ~progress

\* ---------------------------------------------------------------- C14
\* C14 (as claimed): when onMessage dispatches 'message' after a commit that
\* added staged attachments, every attachment the event counts (every entry of
\* attachments, uploads that finished during the commit included) is persisted:
\* it was persisted before or this commit added it.
C14_ReportedCountPersisted ==
  [][(DispatchStep /\ ~destroyed /\ (\E j \in newAttachments : addIssued[j] > 0)) =>
       /\ message' = Cardinality(DOMAIN attachments)
       /\ \A i \in DOMAIN attachments : Doc(i) \in store']_vars

====
